---- MODULE Spec2Model ----
(***************************************************************************)
(* Model of the recipe refinement pipeline of src/app/agent.py:            *)
(*   - the session state dictionary and the session event list,            *)
(*   - EscalationChecker (the evaluation gate),                            *)
(*   - collect_research_sources_callback (the citation ledger),            *)
(*   - the LoopAgent "iterative_refinement_loop" wired in                  *)
(*     recipe_creation_pipeline, followed by the presenter.                *)
(*                                                                         *)
(* Python values are modelled as follows.  A dict is a function whose      *)
(* domain is its key set, None and every empty container are the empty     *)
(* function <<>>, a list is a sequence (Python index i is position i+1),   *)
(* a confidence score is an integer number of hundredths (0.5 is 50).      *)
(***************************************************************************)
EXTENDS Integers, Sequences, FiniteSets, TLC

VARIABLES
    max_iterations,  \* config.max_search_iterations, fixed for one process
    pc,              \* the sub-agent the framework runs next
    times_looped,    \* LoopAgent's count of completed passes over its sub-agents
    state,           \* session.state: a dict from key to value
    events,          \* session.events, in arrival order
    results,         \* history: critique results of the current pipeline run
    refinements,     \* history: refiner invocations of the current pipeline run
    outcome,         \* history: how the loop of the current run ended
    runs             \* history: pipeline runs started in this session

vars == <<max_iterations, pc, times_looped, state, events, results, refinements, outcome, runs>>

-----------------------------------------------------------------------------
(* Bounds of the model. *)

MaxIterations == 2   \* max_iterations ranges over 1..MaxIterations
MaxRuns == 2         \* pipeline runs in one session
MaxRecordings == 2   \* refiner rounds in the ledger specification
MaxChunks == 3       \* grounding chunks of one event in the callback specification
MaxIndices == 2      \* grounding_chunk_indices of one support there
MaxScores == 1       \* confidence_scores of one support there
MaxIngredients == 2  \* ingredients of a recipe in the postprocessor specification

-----------------------------------------------------------------------------
(* Python values. *)

None == <<>>

\* Python truthiness of None, a dict, a list or an object.
Truthy(v) == v # None

\* d.get(key, default)
DictGet(d, key, default) == IF key \in DOMAIN d THEN d[key] ELSE default

\* d[key] = value
DictSet(d, key, value) == [k \in DOMAIN d \cup {key} |-> IF k = key THEN value ELSE d[k]]

SeqsUpTo(S, n) == UNION {[1..k -> S] : k \in 0..n}

-----------------------------------------------------------------------------
(* The citation ledger: collect_research_sources_callback. *)

DefaultConfidence == 50

\* f"src-{id_counter}"
ShortId(id_counter) == "src-" \o ToString(id_counter)

\* Mutation: the counter starts at the number of urls, not one past it.
MutantIdCounterOffByOne(url_to_short_id) == Cardinality(DOMAIN url_to_short_id)

\* id_counter = len(url_to_short_id) + 1
InitialIdCounter(url_to_short_id) == Cardinality(DOMAIN url_to_short_id) + 1

\* Mutation: the membership test is dropped, every chunk allocates.
MutantUrlAlwaysUnseen(url, url_to_short_id) == TRUE

\* if url not in url_to_short_id
IsUnseenUrl(url, url_to_short_id) == url \notin DOMAIN url_to_short_id

\* title = chunk.web.title if chunk.web.title != chunk.web.domain else chunk.web.domain
ChunkTitle(web) == IF web.title # web.domain THEN web.title ELSE web.domain

\* Mutation: the Source stores the chunk's domain where its url belongs.
MutantNewSourceUrlIsDomain(short_id, web) ==
    [short_id |-> short_id,
     title |-> IF web.title # web.domain THEN web.title ELSE web.domain,
     url |-> web.domain,
     domain |-> web.domain,
     supported_claims |-> <<>>]

\* the Source entry created for an unseen url
NewSource(short_id, web) ==
    [short_id |-> short_id,
     title |-> ChunkTitle(web),
     url |-> web.uri,
     domain |-> web.domain,
     supported_claims |-> <<>>]

\* Mutation: the bound of the score lookup is off by one.
MutantConfidenceOffByOne(confidence_scores, i) ==
    IF i + 1 < Len(confidence_scores) THEN confidence_scores[i + 1] ELSE DefaultConfidence

\* confidence_scores[i] if i < len(confidence_scores) else 0.5   (i counts from 0)
ClaimConfidence(confidence_scores, i) ==
    IF i < Len(confidence_scores) THEN confidence_scores[i + 1] ELSE DefaultConfidence

\* support.segment.text if support.segment else ""
ClaimTextSegment(support) == IF Truthy(support.segment) THEN support.segment.text ELSE ""

\* Mutation: the claim replaces the list instead of being appended.
MutantClaimReplacesList(sources, short_id, claim) ==
    [sources EXCEPT ![short_id].supported_claims = <<claim>>]

\* sources[short_id]["supported_claims"].append({...})
AppendClaim(sources, short_id, claim) ==
    [sources EXCEPT ![short_id].supported_claims = Append(@, claim)]

\* Mutation: a chunk for a url already seen refreshes the Source's title and domain.
RECURSIVE MutantRecordChunksRefreshesSource(_, _, _)
MutantRecordChunksRefreshesSource(chunks, pos, acc) ==
    IF pos > Len(chunks) THEN acc
    ELSE LET chunk == chunks[pos]
             idx == pos - 1
         IN  IF ~Truthy(chunk.web) THEN MutantRecordChunksRefreshesSource(chunks, pos + 1, acc)
             ELSE LET url == chunk.web.uri
                      short_id == ShortId(acc.id_counter)
                      added ==
                          IF IsUnseenUrl(url, acc.url_to_short_id)
                          THEN [acc EXCEPT
                                  !.url_to_short_id = DictSet(@, url, short_id),
                                  !.sources = DictSet(@, short_id, NewSource(short_id, chunk.web)),
                                  !.id_counter = @ + 1]
                          ELSE [acc EXCEPT
                                  !.sources[acc.url_to_short_id[url]].title = ChunkTitle(chunk.web),
                                  !.sources[acc.url_to_short_id[url]].domain = chunk.web.domain]
                  IN  MutantRecordChunksRefreshesSource(chunks, pos + 1,
                          [added EXCEPT !.chunks_info = DictSet(@, idx, added.url_to_short_id[url])])

\* The loop over enumerate(grounding_chunks).  acc carries url_to_short_id,
\* sources, id_counter and the chunks_info of the event.
RECURSIVE RecordChunks(_, _, _)
RecordChunks(chunks, pos, acc) ==
    IF pos > Len(chunks) THEN acc
    ELSE LET chunk == chunks[pos]
             idx == pos - 1
         IN  IF ~Truthy(chunk.web) THEN RecordChunks(chunks, pos + 1, acc)
             ELSE LET url == chunk.web.uri
                      short_id == ShortId(acc.id_counter)
                      added ==
                          IF IsUnseenUrl(url, acc.url_to_short_id)
                          THEN [acc EXCEPT
                                  !.url_to_short_id = DictSet(@, url, short_id),
                                  !.sources = DictSet(@, short_id, NewSource(short_id, chunk.web)),
                                  !.id_counter = @ + 1]
                          ELSE acc
                  IN  RecordChunks(chunks, pos + 1,
                          [added EXCEPT !.chunks_info = DictSet(@, idx, added.url_to_short_id[url])])

\* Mutation: an index that does not resolve ends the loop (break for continue).
RECURSIVE MutantRecordIndicesStopsAtUnresolved(_, _, _, _)
MutantRecordIndicesStopsAtUnresolved(support, pos, chunks_info, sources) ==
    IF pos > Len(support.grounding_chunk_indices) THEN sources
    ELSE LET i == pos - 1
             chunk_idx == support.grounding_chunk_indices[pos]
         IN  IF chunk_idx \in DOMAIN chunks_info
             THEN MutantRecordIndicesStopsAtUnresolved(support, pos + 1, chunks_info,
                      AppendClaim(sources, chunks_info[chunk_idx],
                          [text_segment |-> ClaimTextSegment(support),
                           confidence |-> ClaimConfidence(support.confidence_scores, i)]))
             ELSE sources

\* The loop over enumerate(chunk_indices) of one support.
RECURSIVE RecordIndices(_, _, _, _)
RecordIndices(support, pos, chunks_info, sources) ==
    IF pos > Len(support.grounding_chunk_indices) THEN sources
    ELSE LET i == pos - 1
             chunk_idx == support.grounding_chunk_indices[pos]
         IN  IF chunk_idx \in DOMAIN chunks_info
             THEN RecordIndices(support, pos + 1, chunks_info,
                      AppendClaim(sources, chunks_info[chunk_idx],
                          [text_segment |-> ClaimTextSegment(support),
                           confidence |-> ClaimConfidence(support.confidence_scores, i)]))
             ELSE RecordIndices(support, pos + 1, chunks_info, sources)

\* The loop over grounding_supports of one event.
RECURSIVE RecordSupports(_, _, _, _)
RecordSupports(supports, pos, chunks_info, sources) ==
    IF pos > Len(supports) THEN sources
    ELSE RecordSupports(supports, pos + 1, chunks_info,
             RecordIndices(supports[pos], 1, chunks_info, sources))

\* if not (event.grounding_metadata and event.grounding_metadata.grounding_chunks): continue
HasGroundingChunks(event) ==
    Truthy(event.grounding_metadata) /\ Truthy(event.grounding_metadata.grounding_chunks)

\* The body of the loop over session.events for one event.
RecordEvent(event, acc) ==
    IF ~HasGroundingChunks(event) THEN acc
    ELSE LET gm == event.grounding_metadata
             c == RecordChunks(gm.grounding_chunks, 1, [acc EXCEPT !.chunks_info = <<>>])
         IN  IF Truthy(gm.grounding_supports)
             THEN [c EXCEPT !.sources = RecordSupports(gm.grounding_supports, 1, c.chunks_info, @)]
             ELSE c

RECURSIVE RecordEvents(_, _, _)
RecordEvents(session_events, pos, acc) ==
    IF pos > Len(session_events) THEN acc
    ELSE RecordEvents(session_events, pos + 1, RecordEvent(session_events[pos], acc))

\* The whole callback: the session state it leaves.
collect_research_sources_callback(st, session_events) ==
    LET url_to_short_id == DictGet(st, "url_to_short_id", <<>>)
        sources == DictGet(st, "sources", <<>>)
        acc == RecordEvents(session_events, 1,
                   [url_to_short_id |-> url_to_short_id,
                    sources |-> sources,
                    id_counter |-> InitialIdCounter(url_to_short_id),
                    chunks_info |-> <<>>])
    IN  DictSet(DictSet(st, "url_to_short_id", acc.url_to_short_id), "sources", acc.sources)

-----------------------------------------------------------------------------
(* The evaluation gate: EscalationChecker._run_async_impl. *)

\* Mutation: any feedback that is not a fail escalates.
MutantEscalateUnlessFail(st) ==
    LET evaluation_result == DictGet(st, "pediatrician_evaluation", None)
    IN  /\ Truthy(evaluation_result)
        /\ ~("grade" \in DOMAIN evaluation_result /\ evaluation_result["grade"] = "fail")

\* evaluation_result and evaluation_result.get("grade") == "pass"
ShouldEscalate(st) ==
    LET evaluation_result == DictGet(st, "pediatrician_evaluation", None)
    IN  /\ Truthy(evaluation_result)
        /\ "grade" \in DOMAIN evaluation_result
        /\ evaluation_result["grade"] = "pass"

\* Mutation: the escalate action is left out of the event.
MutantCheckerEventNeverEscalates(st) ==
    [author |-> "escalation_checker", escalate |-> FALSE, grounding_metadata |-> None]

\* Event(author=self.name, actions=EventActions(escalate=True)) or Event(author=self.name)
CheckerEvent(st) ==
    [author |-> "escalation_checker", escalate |-> ShouldEscalate(st), grounding_metadata |-> None]

-----------------------------------------------------------------------------
(* What the language-model steps can return. *)

\* PediatricianFeedback, dumped with exclude_none
PassFeedback == [grade |-> "pass", comment |-> "safe and nutritious"]
FailFeedback ==
    [grade |-> "fail", comment |-> "choking hazard",
     follow_up_questions |-> <<[question |-> "how to prepare safely"]>>]

\* A critique returns a pass, a fail, or no final text at all ("absent").
CritiqueResults == {"pass", "fail", "absent"}

Feedback(result) == IF result = "pass" THEN PassFeedback ELSE FailFeedback

\* A base64 encoded image: a non-empty value that is not None.
Base64Image == <<"iVBORw0KGgo">>

\* The Recipe written by recipe_generator, ingredient_images included as its
\* instruction demands, and the revision written by the refiner, whose
\* instruction spells the Recipe schema out without ingredient_images.
GeneratedRecipe ==
    [title |-> "Sweet potato puree",
     description |-> "A smooth first puree",
     ingredients |-> <<"1 cup sweet potato">>,
     instructions |-> <<"Steam and mash">>,
     age_appropriateness |-> "6+ months",
     ingredient_images |-> <<[name |-> "1 cup sweet potato", base64_image |-> Base64Image]>>]
RefinedRecipe ==
    [title |-> "Steamed sweet potato puree",
     description |-> "A smooth first puree",
     ingredients |-> <<"1 cup sweet potato">>,
     instructions |-> <<"Steam until soft and mash">>,
     age_appropriateness |-> "6-8 months"]
RefinerOutputs == {None, RefinedRecipe}

\* output_key: the final text of a step is saved under its key, when there is one.
SaveOutput(st, output_key, output) ==
    IF Truthy(output) THEN DictSet(st, output_key, output) ELSE st

\* An event of a language-model step, with the grounding metadata of its response.
AgentEvent(author, grounding_metadata) ==
    [author |-> author, escalate |-> FALSE, grounding_metadata |-> grounding_metadata]

UrlA == "https://a.example"
UrlB == "https://b.example"
WebA == [uri |-> UrlA, title |-> "Title A", domain |-> "a.example"]
WebA2 == [uri |-> UrlA, title |-> "www.a.example", domain |-> "www.a.example"]
WebB == [uri |-> UrlB, title |-> "Title B", domain |-> "b.example"]
Segments == {None, [text |-> "claim"]}
Scores == {90}

GroundingSupports(segments, maxScores, indices, maxIndices) ==
    [segment : segments,
     confidence_scores : SeqsUpTo(Scores, maxScores),
     grounding_chunk_indices : SeqsUpTo(indices, maxIndices)]

GroundingMetadata(chunkLists, supports) ==
    [grounding_chunks : chunkLists,
     grounding_supports : {None} \cup {<<s>> : s \in supports}]

\* Refiner responses in the pipeline: no grounding, or one source with one claim.
PipelineGrounding ==
    {None,
     [grounding_chunks |-> <<[web |-> WebA]>>,
      grounding_supports |->
          <<[segment |-> [text |-> "claim"], confidence_scores |-> <<90>>,
             grounding_chunk_indices |-> <<0>>]>>]}

\* Critic responses with grounding metadata (the critique interface of the
\* session allows it): none, or one source with one claim.
CriticGrounding ==
    {None,
     [grounding_chunks |-> <<[web |-> WebB]>>,
      grounding_supports |->
          <<[segment |-> [text |-> "critique"], confidence_scores |-> <<90>>,
             grounding_chunk_indices |-> <<0>>]>>]}

\* Refiner responses in the ledger specification: up to two chunks, and at
\* most one support that references them in either order.
LedgerGrounding ==
    {None} \cup
    GroundingMetadata(SeqsUpTo({[web |-> WebA], [web |-> WebA2], [web |-> WebB]}, 2),
        [segment : {[text |-> "claim"]},
         confidence_scores : {<<90>>},
         grounding_chunk_indices : {<<0>>, <<1>>, <<1, 0>>}])

\* Refiner responses in the callback specification: chunks with and without
\* a web reference, and one support whose indices may point anywhere,
\* also one past the last chunk.
CallbackGrounding ==
    GroundingMetadata(
        SeqsUpTo({[web |-> None], [web |-> WebA], [web |-> WebA2], [web |-> WebB]}, MaxChunks),
        GroundingSupports(Segments, MaxScores, 0..MaxChunks, MaxIndices))

-----------------------------------------------------------------------------
(* The steps of the pipeline.  LoopAgent runs its sub-agents in order       *)
(* (critic, checker, refiner), returns as soon as a sub-agent's event       *)
(* escalates, and otherwise counts one pass and goes on while fewer than    *)
(* max_iterations passes are done; the presenter follows the loop.          *)

\* Mutation: the loop bound is off by one.
MutantLoopRunsOnePassMore(looped, max) == looped <= max

\* Mutation: the loop gives up one pass before the cap.
MutantLoopStopsOnePassEarly(looped, max) == max = 0 \/ looped + 1 < max

\* LoopAgent: while not max_iterations or times_looped < max_iterations
\* (a max_iterations of 0 is falsy: the loop is not capped)
LoopContinues(looped, max) == max = 0 \/ looped < max

\* interactive_recipe_agent calls the recipe_generator tool: current_recipe is written.
GenerateRecipe ==
    /\ pc = "idle"
    /\ runs < MaxRuns
    /\ state' = SaveOutput(state, "current_recipe", GeneratedRecipe)
    /\ pc' = "approval"
    /\ UNCHANGED <<max_iterations, times_looped, events, results, refinements, outcome, runs>>

\* On the user's approval interactive_recipe_agent delegates to recipe_creation_pipeline.
DelegateToPipeline ==
    /\ pc = "approval"
    /\ pc' = "critic"
    /\ times_looped' = 0
    /\ results' = <<>>
    /\ refinements' = 0
    /\ outcome' = "none"
    /\ runs' = runs + 1
    /\ UNCHANGED <<max_iterations, state, events>>

\* One run of pediatrician_critic_agent: its feedback, when it returns one, is
\* saved under output_key "pediatrician_evaluation"; its response event joins
\* the session.  The agent has no after_agent_callback.
CriticRound(grounding_metadata) ==
    /\ pc = "critic"
    /\ \E result \in CritiqueResults :
          /\ state' = SaveOutput(state, "pediatrician_evaluation",
                                 IF result = "absent" THEN None ELSE Feedback(result))
          /\ results' = Append(results, result)
    /\ events' = Append(events, AgentEvent("pediatrician_critic_agent", grounding_metadata))
    /\ pc' = "checker"
    /\ UNCHANGED <<max_iterations, times_looped, refinements, outcome, runs>>

\* pediatrician_critic_agent has no search tool: its response carries no grounding.
pediatrician_critic_agent == CriticRound(None)

\* escalation_checker: yields one event; the loop returns when it escalates.
escalation_checker ==
    /\ pc = "checker"
    /\ LET event == CheckerEvent(state)
       IN  /\ events' = Append(events, event)
           /\ IF event.escalate
              THEN pc' = "presenter" /\ outcome' = "STOPPED_PASS"
              ELSE pc' = "refiner" /\ outcome' = outcome
    /\ UNCHANGED <<max_iterations, times_looped, state, results, refinements, runs>>

\* One run of recipe_refiner_agent: its response event joins the session, its
\* output is saved under "current_recipe", then its after_agent_callback runs.
RefinerRound(grounding_metadata, output) ==
    /\ events' = Append(events, AgentEvent("recipe_refiner_agent", grounding_metadata))
    /\ state' = collect_research_sources_callback(
                    SaveOutput(state, "current_recipe", output), events')

\* recipe_refiner_agent as last sub-agent of the loop: one pass is counted.
recipe_refiner_agent ==
    /\ pc = "refiner"
    /\ \E grounding_metadata \in PipelineGrounding, output \in RefinerOutputs :
          RefinerRound(grounding_metadata, output)
    /\ refinements' = refinements + 1
    /\ times_looped' = times_looped + 1
    /\ IF LoopContinues(times_looped', max_iterations)
       THEN pc' = "critic" /\ outcome' = outcome
       ELSE pc' = "presenter" /\ outcome' = "STOPPED_CAP"
    /\ UNCHANGED <<max_iterations, results, runs>>

\* Mutation: the presenter saves its report under the recipe's key.
MutantPresenterOutputKey == "current_recipe"

\* output_key="final_recipe_report"
PresenterOutputKey == "final_recipe_report"

\* final_recipe_presenter_agent: reads current_recipe, writes final_recipe_report.
final_recipe_presenter_agent ==
    /\ pc = "presenter"
    /\ state' = SaveOutput(state, PresenterOutputKey,
                           [report_of |-> DictGet(state, "current_recipe", None)])
    /\ events' = Append(events, AgentEvent("final_recipe_presenter_agent", None))
    /\ pc' = "idle"
    /\ UNCHANGED <<max_iterations, times_looped, results, refinements, outcome, runs>>

Init ==
    /\ max_iterations \in 1..MaxIterations
    /\ pc = "idle"
    /\ times_looped = 0
    /\ state = <<>>
    /\ events = <<>>
    /\ results = <<>>
    /\ refinements = 0
    /\ outcome = "none"
    /\ runs = 0

PipelineStep ==
    \/ pediatrician_critic_agent
    \/ escalation_checker
    \/ recipe_refiner_agent
    \/ final_recipe_presenter_agent

Next ==
    \/ GenerateRecipe
    \/ DelegateToPipeline
    \/ PipelineStep

Spec == Init /\ [][Next]_vars

\* The framework awaits every step of a running pipeline to completion: weak
\* fairness of each sub-agent.  The refiner's step is enabled exactly when
\* pc = "refiner" (its inputs are never empty and it always moves pc), so its
\* weak fairness is written with that condition in place of ENABLED.
FairSpec ==
    /\ Spec
    /\ WF_vars(pediatrician_critic_agent)
    /\ WF_vars(escalation_checker)
    /\ WF_vars(final_recipe_presenter_agent)
    /\ ([]<>(pc # "refiner") \/ []<><<recipe_refiner_agent>>_vars)

-----------------------------------------------------------------------------
(* One pipeline run in which the critic's responses may carry grounding     *)
(* metadata.                                                                *)

CritiqueInit ==
    /\ max_iterations \in 1..MaxIterations
    /\ pc = "critic"
    /\ times_looped = 0
    /\ state = SaveOutput(<<>>, "current_recipe", GeneratedRecipe)
    /\ events = <<>>
    /\ results = <<>>
    /\ refinements = 0
    /\ outcome = "none"
    /\ runs = 1

GroundedCritique == \E grounding_metadata \in CriticGrounding : CriticRound(grounding_metadata)

CritiqueStep ==
    \/ GroundedCritique
    \/ escalation_checker
    \/ recipe_refiner_agent
    \/ final_recipe_presenter_agent

CritiqueSpec == CritiqueInit /\ [][CritiqueStep]_vars

-----------------------------------------------------------------------------
(* One pipeline run configured with max_iterations = 0.  The loop is not    *)
(* capped then; the model follows it for MaxIterations + 1 passes.          *)

ZeroCapInit ==
    /\ max_iterations = 0
    /\ pc = "critic"
    /\ times_looped = 0
    /\ state = SaveOutput(<<>>, "current_recipe", GeneratedRecipe)
    /\ events = <<>>
    /\ results = <<>>
    /\ refinements = 0
    /\ outcome = "none"
    /\ runs = 1

ZeroCapStep ==
    \/ (times_looped <= MaxIterations /\ pediatrician_critic_agent)
    \/ escalation_checker
    \/ recipe_refiner_agent
    \/ final_recipe_presenter_agent

ZeroCapSpec == ZeroCapInit /\ [][ZeroCapStep]_vars

-----------------------------------------------------------------------------
(* recipe_generator_postprocessor.  An ingredient description is modelled   *)
(* as the sequence of its words (the string split at spaces); a word that   *)
(* contains a digit is one of DigitWords.                                   *)

common_prep_words ==
    {"chopped", "diced", "sliced", "cooked", "ripe", "fresh", "organic", "a", "an", "the", "some"}

DigitWords == {"1", "2"}

\* The positions of " of " in the description: an "of" with a word on either side.
OfPositions(words) == {p \in 2..(Len(words) - 1) : words[p] = "of"}

\* full_ingredient_desc.split(" of ")[-1] when " of " occurs, else the description
NameToSearch(words) ==
    IF OfPositions(words) = {} THEN words
    ELSE LET last == CHOOSE p \in OfPositions(words) : \A q \in OfPositions(words) : q <= p
         IN  SubSeq(words, last + 1, Len(words))

\* the words that are no preparation word and contain no digit
NameParts(words) ==
    SelectSeq(words, LAMBDA word : word \notin common_prep_words /\ word \notin DigitWords)

\* The name handed to generate_ingredient_image for one ingredient.
SimpleName(words) ==
    LET name_to_search == NameToSearch(words)
        simple_name == NameParts(name_to_search)
        fallback == IF name_to_search # words THEN name_to_search ELSE <<words[Len(words)]>>
        chosen == IF simple_name = <<>> THEN fallback ELSE simple_name
    IN  IF chosen = <<>> THEN words ELSE chosen

\* What one call of generate_ingredient_image does: it returns a base64
\* string, returns None, or raises.
ImageResults == {"image", "none", "raises"}

\* Mutation: an exception of the image call is not caught, the list stays empty.
RECURSIVE MutantImageEntriesAbortOnRaise(_, _, _)
MutantImageEntriesAbortOnRaise(recipe_ingredients, image_results, upto) ==
    IF upto = 0 THEN <<>>
    ELSE IF image_results[upto] = "raises" THEN <<>>
    ELSE Append(MutantImageEntriesAbortOnRaise(recipe_ingredients, image_results, upto - 1),
                [name |-> recipe_ingredients[upto],
                 base64_image |-> IF image_results[upto] = "image" THEN Base64Image ELSE None])

\* The loop over enumerate(recipe_ingredients): one entry per ingredient,
\* appended in the try block or in the except block.
RECURSIVE ImageEntries(_, _, _)
ImageEntries(recipe_ingredients, image_results, upto) ==
    IF upto = 0 THEN <<>>
    ELSE Append(ImageEntries(recipe_ingredients, image_results, upto - 1),
                [name |-> recipe_ingredients[upto],
                 base64_image |-> IF image_results[upto] = "image" THEN Base64Image ELSE None])

\* The calls of generate_ingredient_image the loop makes, in order.
ImageRequests(recipe_ingredients, gcp_project_id) ==
    [i \in DOMAIN recipe_ingredients |->
        [ingredient_name |-> SimpleName(recipe_ingredients[i]), project_id |-> gcp_project_id]]

\* The value recipe_generator_postprocessor returns.  An output that is no
\* dict is modelled by None.
recipe_generator_postprocessor(agent_output, gcp_project_id, image_results) ==
    IF "ingredients" \notin DOMAIN agent_output THEN agent_output
    ELSE LET recipe_ingredients == agent_output["ingredients"]
         IN  IF ~Truthy(recipe_ingredients)
             THEN DictSet(agent_output, "ingredient_images", <<>>)
             ELSE IF gcp_project_id = ""
             THEN DictSet(agent_output, "ingredient_images",
                      [i \in DOMAIN recipe_ingredients |->
                          [name |-> recipe_ingredients[i], base64_image |-> None]])
             ELSE DictSet(agent_output, "ingredient_images",
                      ImageEntries(recipe_ingredients, image_results, Len(recipe_ingredients)))

IngredientDescriptions ==
    {<<"1", "cup", "of", "chopped", "sweet", "potato">>, <<"ripe", "banana">>, <<"2", "fresh">>}

\* Outputs of recipe_generator: not a dict, a dict without ingredients, and
\* recipes of up to MaxIngredients ingredients, with or without an
\* ingredient_images field of the model's own.
AgentOutputs ==
    {None, [title |-> "Sweet potato puree"]}
    \cup {[title |-> "Sweet potato puree", ingredients |-> ingredients] :
              ingredients \in SeqsUpTo(IngredientDescriptions, MaxIngredients)}
    \cup {[title |-> "Sweet potato puree", ingredients |-> ingredients,
           ingredient_images |-> <<>>] :
              ingredients \in SeqsUpTo(IngredientDescriptions, MaxIngredients)}

\* The call: state holds the argument under "agent_output", the environment
\* variable GOOGLE_CLOUD_PROJECT ("" when it is unset or empty: both are
\* falsy), and what the successive image calls will do.
PostprocessInit ==
    /\ max_iterations = 1
    /\ pc = "postprocess"
    /\ times_looped = 0
    /\ \E agent_output \in AgentOutputs, gcp_project_id \in {"", "project"},
          image_results \in [1..MaxIngredients -> ImageResults] :
          state = [agent_output |-> agent_output,
                   GOOGLE_CLOUD_PROJECT |-> gcp_project_id,
                   image_results |-> image_results,
                   image_requests |-> <<>>]
    /\ events = <<>>
    /\ results = <<>>
    /\ refinements = 0
    /\ outcome = "none"
    /\ runs = 0

Postprocess ==
    /\ pc = "postprocess"
    /\ LET agent_output == state["agent_output"]
           gcp_project_id == state["GOOGLE_CLOUD_PROJECT"]
           requested == /\ "ingredients" \in DOMAIN agent_output
                        /\ Truthy(agent_output["ingredients"])
                        /\ gcp_project_id # ""
       IN  state' = [state EXCEPT
               !["agent_output"] =
                   recipe_generator_postprocessor(agent_output, gcp_project_id,
                                                  state["image_results"]),
               !["image_requests"] =
                   IF requested
                   THEN ImageRequests(agent_output["ingredients"], gcp_project_id)
                   ELSE <<>>]
    /\ pc' = "postprocessed"
    /\ UNCHANGED <<max_iterations, times_looped, events, results, refinements, outcome, runs>>

PostprocessSpec == PostprocessInit /\ [][Postprocess]_vars

-----------------------------------------------------------------------------
(* The ledger on its own: refiner rounds of one session, one after another. *)

LedgerInit ==
    /\ max_iterations = MaxRecordings
    /\ pc = "refiner"
    /\ times_looped = 0
    /\ state = <<>>
    /\ events = <<>>
    /\ results = <<>>
    /\ refinements = 0
    /\ outcome = "none"
    /\ runs = 1

LedgerRound ==
    /\ pc = "refiner"
    /\ refinements < MaxRecordings
    /\ \E grounding_metadata \in LedgerGrounding :
          RefinerRound(grounding_metadata, RefinedRecipe)
    /\ refinements' = refinements + 1
    /\ UNCHANGED <<max_iterations, pc, times_looped, results, outcome, runs>>

LedgerSpec == LedgerInit /\ [][LedgerRound]_vars

-----------------------------------------------------------------------------
(* The callback on its own: one refiner response, recorded once. *)

CallbackInit ==
    /\ max_iterations = 1
    /\ pc = "callback"
    /\ times_looped = 0
    /\ state = <<>>
    /\ \E grounding_metadata \in CallbackGrounding :
          events = <<AgentEvent("recipe_refiner_agent", grounding_metadata)>>
    /\ results = <<>>
    /\ refinements = 0
    /\ outcome = "none"
    /\ runs = 1

AfterAgentCallback ==
    /\ pc = "callback"
    /\ state' = collect_research_sources_callback(state, events)
    /\ pc' = "recorded"
    /\ refinements' = refinements + 1
    /\ UNCHANGED <<max_iterations, times_looped, events, results, outcome, runs>>

CallbackSpec == CallbackInit /\ [][AfterAgentCallback]_vars

-----------------------------------------------------------------------------
(* The gate on its own: escalation_checker applied to every shape of        *)
(* session state, also shapes the critic's schema would not produce.        *)

WithKey(dicts, key, values) ==
    dicts \cup {DictSet(d, key, v) : d \in dicts, v \in values}

GateEvaluations ==
    WithKey(WithKey(WithKey({<<>>},
        "grade", {"pass", "fail"}),
        "comment", {"safe and nutritious", "choking hazard"}),
        "follow_up_questions", {<<>>, <<[question |-> "how to prepare safely"]>>})

GateStates ==
    WithKey(WithKey({<<>>},
        "pediatrician_evaluation", GateEvaluations),
        "current_recipe", {GeneratedRecipe})

GateInit ==
    /\ max_iterations \in 1..MaxIterations
    /\ pc = "checker"
    /\ times_looped = 0
    /\ state \in GateStates
    /\ events = <<>>
    /\ results = <<>>
    /\ refinements = 0
    /\ outcome = "none"
    /\ runs = 1

GateSpec == GateInit /\ [][escalation_checker]_vars

-----------------------------------------------------------------------------
(* What the claims speak about, read off the session without the callback.  *)

Urls == {UrlA, UrlB}

UrlMap(st) == DictGet(st, "url_to_short_id", <<>>)
SourceMap(st) == DictGet(st, "sources", <<>>)
ClaimsOf(st, url) == SourceMap(st)[UrlMap(st)[url]].supported_claims

LastOf(seq) == seq[Len(seq)]
Range(seq) == {seq[p] : p \in DOMAIN seq}
IsPrefix(s, t) == Len(s) <= Len(t) /\ \A p \in DOMAIN s : s[p] = t[p]

ChunksOf(event) ==
    IF event.grounding_metadata = None THEN <<>>
    ELSE event.grounding_metadata.grounding_chunks

SupportsOf(event) ==
    IF event.grounding_metadata = None THEN <<>>
    ELSE event.grounding_metadata.grounding_supports

\* Chunk number idx (from 0) of the event carries a web reference to url.
ChunkHasUrl(event, idx, url) ==
    /\ idx + 1 \in DOMAIN ChunksOf(event)
    /\ ChunksOf(event)[idx + 1].web # None
    /\ ChunksOf(event)[idx + 1].web.uri = url

DeliveredUrls(session_events) ==
    {u \in Urls : \E k \in DOMAIN session_events :
        \E p \in DOMAIN ChunksOf(session_events[k]) : ChunkHasUrl(session_events[k], p - 1, u)}

\* The (support, referenced index) pairs of one event that point at url.
DeliveredPairs(event, url) ==
    UNION {{<<s, p>> : p \in {q \in DOMAIN SupportsOf(event)[s].grounding_chunk_indices :
                ChunkHasUrl(event, SupportsOf(event)[s].grounding_chunk_indices[q], url)}} :
           s \in DOMAIN SupportsOf(event)}

DeliveredCount(event, url) == Cardinality(DeliveredPairs(event, url))

RECURSIVE TotalDelivered(_, _)
TotalDelivered(session_events, url) ==
    IF session_events = <<>> THEN 0
    ELSE TotalDelivered(SubSeq(session_events, 1, Len(session_events) - 1), url)
         + DeliveredCount(LastOf(session_events), url)

\* The urls of the web chunks of all events, in order of arrival.
RECURSIVE ChunkUrls(_)
ChunkUrls(chunks) ==
    IF chunks = <<>> THEN <<>>
    ELSE LET front == ChunkUrls(SubSeq(chunks, 1, Len(chunks) - 1))
         IN  IF LastOf(chunks).web = None THEN front ELSE Append(front, LastOf(chunks).web.uri)

RECURSIVE AllUrls(_)
AllUrls(session_events) ==
    IF session_events = <<>> THEN <<>>
    ELSE AllUrls(SubSeq(session_events, 1, Len(session_events) - 1))
         \o ChunkUrls(ChunksOf(LastOf(session_events)))

RECURSIVE FirstOccurrences(_)
FirstOccurrences(seq) ==
    IF seq = <<>> THEN <<>>
    ELSE LET front == FirstOccurrences(SubSeq(seq, 1, Len(seq) - 1))
         IN  IF LastOf(seq) \in Range(front) THEN front ELSE Append(front, LastOf(seq))

\* Every response that arrived has been recorded by the callback.
Recorded == pc # "callback"

-----------------------------------------------------------------------------
(* The loop controller. *)

LoopEnded == outcome # "none"

\* C1: for every max_iterations >= 1 and every sequence of critique results
\* (pass, fail, absent) a started loop terminates, the refiner is invoked at
\* most max_iterations times, and a critique that returns pass is the last
\* one: the loop ends there, without another refinement.
C1_LoopTerminates ==
    /\ [](refinements <= max_iterations)
    /\ [](\A i \in DOMAIN results :
            results[i] = "pass" =>
                /\ i = Len(results)
                /\ pc \in {"checker", "presenter", "idle", "approval"}
                /\ (pc # "checker" => outcome = "STOPPED_PASS"))
    /\ [](pc \in {"critic", "checker", "refiner", "presenter"} => <>(pc = "idle"))

\* A run that failed once, was refined once and then passed has ended.
C1_Witness ==
    /\ pc = "idle"
    /\ results = <<"fail", "pass">>
    /\ refinements = 1
    /\ outcome = "STOPPED_PASS"

\* C2: the gate escalates exactly when a feedback is present in session state
\* and its grade is pass (absent, empty, gradeless and failing feedback all
\* continue), the loop stops exactly when it escalates, and the gate leaves
\* session state as it was.
C2_GateStopsIffPass ==
    [][escalation_checker =>
          /\ LastOf(events').escalate <=>
                 /\ "pediatrician_evaluation" \in DOMAIN state
                 /\ "grade" \in DOMAIN state["pediatrician_evaluation"]
                 /\ state["pediatrician_evaluation"]["grade"] = "pass"
          /\ LastOf(events').escalate <=> pc' = "presenter"
          /\ ~LastOf(events').escalate <=> pc' = "refiner"
          /\ state' = state]_vars

\* The gate has continued on a feedback that carries a comment but no grade.
C2_Witness ==
    /\ pc = "refiner"
    /\ events # <<>>
    /\ LastOf(events).author = "escalation_checker"
    /\ "pediatrician_evaluation" \in DOMAIN state
    /\ DOMAIN state["pediatrician_evaluation"] = {"comment"}

FailsThenPass(critiques) ==
    /\ critiques # <<>>
    /\ LastOf(critiques) = "pass"
    /\ \A i \in 1..(Len(critiques) - 1) : critiques[i] = "fail"

\* C3: when the critiques of a run are k fails followed by a pass, the run has
\* seen exactly k refinements, and once the gate has decided the loop has
\* ended in STOPPED_PASS with no further critique or refinement.
C3_FailsThenPassStops ==
    FailsThenPass(results) =>
        /\ refinements = Len(results) - 1
        /\ times_looped = refinements
        /\ pc \in {"checker", "presenter", "idle", "approval"}
        /\ (pc # "checker" => outcome = "STOPPED_PASS")

\* Scenario B: one fail, one refinement, one pass, and the presenter is next.
C3_Witness ==
    /\ pc = "presenter"
    /\ max_iterations = MaxIterations
    /\ results = <<"fail", "pass">>
    /\ refinements = 1
    /\ outcome = "STOPPED_PASS"

\* C4, as claimed: a run in which no critique returned pass ends in
\* STOPPED_CAP after exactly max_iterations refinements and critiques.
C4_NoPassRunsToCap ==
    (LoopEnded /\ \A i \in DOMAIN results : results[i] # "pass") =>
        /\ outcome = "STOPPED_CAP"
        /\ refinements = max_iterations
        /\ Len(results) = max_iterations

\* C10, as claimed: an iteration whose critique produced no feedback never
\* ends the loop in STOPPED_PASS.
C10_AbsentFeedbackContinues ==
    (results # <<>> /\ LastOf(results) = "absent") => outcome # "STOPPED_PASS"

-----------------------------------------------------------------------------
(* The citation ledger. *)

\* C5, state part: every url delivered so far has one short_id and one
\* Source, and that Source holds at least the claims delivered for the url.
C5_OneSourcePerUrl ==
    Recorded =>
        \A u \in DeliveredUrls(events) :
            /\ u \in DOMAIN UrlMap(state)
            /\ {s \in DOMAIN SourceMap(state) : SourceMap(state)[s].url = u} = {UrlMap(state)[u]}
            /\ Len(ClaimsOf(state, u)) >= TotalDelivered(events, u)

\* C5, step part: a url recorded before keeps its short_id, and the claims a
\* new response delivers for it are added to its Source.
C5_ReuseOnReencounter ==
    \A u \in DOMAIN UrlMap(state) :
        /\ u \in DOMAIN UrlMap(state')
        /\ UrlMap(state')[u] = UrlMap(state)[u]
        /\ Len(events') > Len(events) =>
               Len(ClaimsOf(state', u)) >= Len(ClaimsOf(state, u)) + DeliveredCount(LastOf(events'), u)

\* C5: after any sequence of recordings each distinct url has exactly one
\* short_id, given when it was first seen; meeting it again reuses the
\* short_id, creates no second Source and appends the new claims.
C5_UrlHasOneShortId == []C5_OneSourcePerUrl /\ [][C5_ReuseOnReencounter]_vars

\* The same url delivered with a claim by two successive responses.
C5_Witness ==
    /\ Len(events) = 2
    /\ DeliveredCount(events[1], UrlA) > 0
    /\ DeliveredCount(events[2], UrlA) > 0
    /\ Cardinality(DOMAIN SourceMap(state)) = 1
    /\ UrlMap(state)[UrlA] = "src-1"

\* C6: the n-th distinct url of the session, in order of arrival, has short_id
\* src-n, and no other short_id exists.
C6_FirstSeenOrder ==
    Recorded =>
        LET order == FirstOccurrences(AllUrls(events))
        IN  /\ DOMAIN UrlMap(state) = Range(order)
            /\ DOMAIN SourceMap(state) = {"src-" \o ToString(n) : n \in DOMAIN order}
            /\ \A n \in DOMAIN order : UrlMap(state)[order[n]] = "src-" \o ToString(n)

\* Two urls that arrived in two responses, the later one numbered 2 although
\* the support of its response references it first.
C6_Witness ==
    /\ Len(events) = 2
    /\ DeliveredUrls(<<events[1]>>) = {UrlB}
    /\ ChunkHasUrl(events[2], 0, UrlB)
    /\ ChunkHasUrl(events[2], 1, UrlA)
    /\ SupportsOf(events[2]) # <<>>
    /\ SupportsOf(events[2])[1].grounding_chunk_indices = <<1, 0>>
    /\ UrlMap(state)[UrlB] = "src-1"
    /\ UrlMap(state)[UrlA] = "src-2"

\* C7, as claimed: the number of claims on a Source equals the number of
\* (support, referenced index) pairs delivered for its url.
C7_ClaimsRecordedOnce ==
    Recorded =>
        \A u \in DOMAIN UrlMap(state) : Len(ClaimsOf(state, u)) = TotalDelivered(events, u)

\* C8: a step never removes or renumbers a url or a Source, and the claims of
\* a Source before the step are a prefix of its claims after it.
C8_LedgerAdditive ==
    [][/\ \A u \in DOMAIN UrlMap(state) :
            u \in DOMAIN UrlMap(state') /\ UrlMap(state')[u] = UrlMap(state)[u]
       /\ \A s \in DOMAIN SourceMap(state) :
            /\ s \in DOMAIN SourceMap(state')
            /\ SourceMap(state')[s].short_id = SourceMap(state)[s].short_id
            /\ SourceMap(state')[s].url = SourceMap(state)[s].url
            /\ IsPrefix(SourceMap(state)[s].supported_claims,
                        SourceMap(state')[s].supported_claims)]_vars

\* A second recording has added a second Source and lengthened the first.
C8_Witness ==
    /\ Len(events) = 2
    /\ DeliveredCount(events[1], UrlB) = 1
    /\ DeliveredUrls(<<events[1]>>) = {UrlB}
    /\ DeliveredCount(events[2], UrlA) = 1
    /\ DeliveredCount(events[2], UrlB) = 1
    /\ DOMAIN SourceMap(state) = {"src-1", "src-2"}
    /\ Len(SourceMap(state)["src-1"].supported_claims) > 1

\* The one response of the callback specification and its one support.
RecordedEvent == events[1]
HasSupport == SupportsOf(RecordedEvent) # <<>>
TheSupport == SupportsOf(RecordedEvent)[1]

\* C9, as claimed: a support with one confidence score that references chunk
\* index 2 records confidence 0.5 for the claim on chunk 2.
C9_ChunkIndexTwoGetsDefault ==
    (pc = "recorded" /\ HasSupport /\ Len(TheSupport.confidence_scores) = 1) =>
        \A u \in Urls :
            (/\ ChunkHasUrl(RecordedEvent, 2, u)
             /\ 2 \in Range(TheSupport.grounding_chunk_indices)
             /\ \A p \in DOMAIN TheSupport.grounding_chunk_indices :
                    ChunkHasUrl(RecordedEvent, TheSupport.grounding_chunk_indices[p], u)
                        => TheSupport.grounding_chunk_indices[p] = 2)
            => \A c \in DOMAIN ClaimsOf(state, u) : ClaimsOf(state, u)[c].confidence = 50

\* The claims one support yields for url, by position in grounding_chunk_indices.
RECURSIVE ExpectedClaims(_, _, _, _)
ExpectedClaims(event, support, url, upto) ==
    IF upto = 0 THEN <<>>
    ELSE LET front == ExpectedClaims(event, support, url, upto - 1)
         IN  IF ChunkHasUrl(event, support.grounding_chunk_indices[upto], url)
             THEN Append(front,
                      [text_segment |->
                           IF support.segment = None THEN "" ELSE support.segment.text,
                       confidence |->
                           IF upto <= Len(support.confidence_scores)
                           THEN support.confidence_scores[upto] ELSE 50])
             ELSE front

\* C9, amended: the claim for the reference at position i of a support's
\* grounding_chunk_indices carries confidence_scores[i] when the support has
\* a score at position i and 0.5 otherwise, whatever chunk index it names;
\* its text_segment is "" when the support has no segment.
C9_ConfidenceByPosition ==
    (pc = "recorded" /\ HasSupport) =>
        \A u \in DeliveredUrls(events) :
            ClaimsOf(state, u) =
                ExpectedClaims(RecordedEvent, TheSupport, u,
                               Len(TheSupport.grounding_chunk_indices))

\* One score, indices (0, 2): the claim on chunk 2 is second and gets 0.5,
\* with an empty text_segment as the support has no segment.
C9_Witness ==
    /\ pc = "recorded"
    /\ HasSupport
    /\ TheSupport.confidence_scores = <<90>>
    /\ TheSupport.grounding_chunk_indices = <<0, 2>>
    /\ TheSupport.segment = None
    /\ ChunkHasUrl(RecordedEvent, 0, UrlB)
    /\ ChunkHasUrl(RecordedEvent, 2, UrlA)
    /\ ClaimsOf(state, UrlA) = <<[text_segment |-> "", confidence |-> 50]>>
    /\ ClaimsOf(state, UrlB) = <<[text_segment |-> "", confidence |-> 90]>>

-----------------------------------------------------------------------------
(* Critique grounding and the ledger. *)

CritiqueEvents == SelectSeq(events, LAMBDA e : e.author = "pediatrician_critic_agent")

-----------------------------------------------------------------------------
(* The loop bound. *)

\* C12, as claimed: with max_iterations = 0 neither the critique nor the
\* refinement is ever invoked, the loop can only end in STOPPED_CAP, and the
\* generated recipe stays the current recipe.
C12_ZeroCapStopsImmediately ==
    max_iterations = 0 =>
        /\ results = <<>>
        /\ refinements = 0
        /\ outcome \in {"none", "STOPPED_CAP"}
        /\ pc \notin {"checker", "refiner"}
        /\ state["current_recipe"] = GeneratedRecipe

\* C13: once the loop has ended (STOPPED_PASS or STOPPED_CAP) no critique or
\* refinement step runs any more, and the one step that follows, the
\* presenter, leaves the current recipe, the feedback, the ledger, every
\* other key of session state and the iteration count as they are: it adds
\* only its own report.  (A later request for a new recipe starts over.)
C13_TerminalFrame ==
    /\ [](LoopEnded => pc \in {"presenter", "idle", "approval"})
    /\ [][(LoopEnded /\ pc \notin {"idle", "approval"}) =>
            /\ pc' = "idle"
            /\ \A k \in (DOMAIN state \cup DOMAIN state') \ {"final_recipe_report"} :
                   k \in DOMAIN state /\ k \in DOMAIN state' /\ state'[k] = state[k]
            /\ "final_recipe_report" \in DOMAIN state'
            /\ state'["final_recipe_report"].report_of = state["current_recipe"]
            /\ times_looped' = times_looped
            /\ refinements' = refinements
            /\ results' = results
            /\ outcome' = outcome]_vars

\* A run that ended at the cap has been formatted: the report is of the
\* refined recipe, and recipe, feedback and ledger are still in place.
C13_Witness ==
    /\ pc = "idle"
    /\ outcome = "STOPPED_CAP"
    /\ "final_recipe_report" \in DOMAIN state
    /\ state["final_recipe_report"].report_of = RefinedRecipe
    /\ state["current_recipe"] = RefinedRecipe
    /\ DictGet(state, "pediatrician_evaluation", None) = FailFeedback
    /\ DOMAIN SourceMap(state) = {"src-1"}

-----------------------------------------------------------------------------
(* Recordings without grounding. *)

\* C14, as claimed: a recording for a response that delivered no grounding
\* chunks leaves the url -> short_id mapping and every Source, supported
\* claims included, as they were.
C14_NoGroundingRecordsNothing ==
    [][(Len(events') > Len(events) /\ ChunksOf(LastOf(events')) = <<>>) =>
          /\ UrlMap(state') = UrlMap(state)
          /\ SourceMap(state') = SourceMap(state)]_vars

-----------------------------------------------------------------------------
(* How the loop stops at the cap. *)

-----------------------------------------------------------------------------
(* The recipe that is handed to the presenter. *)

\* C17, as claimed: a run that ended in STOPPED_PASS was stopped on a critique
\* of that run which returned pass, it was the run's last critique, and no
\* refinement has written current_recipe since: the run has one critique more
\* than refinements.
C17_PassedRecipeHandedOver ==
    outcome = "STOPPED_PASS" =>
        /\ results # <<>>
        /\ LastOf(results) = "pass"
        /\ refinements = Len(results) - 1

\* C18, as claimed: the iteration count stays within 0..max_iterations and
\* counts the completed refinements of the run, and, whenever the gate is not
\* about to decide, the loop has ended exactly when the latest critique
\* returned pass or the count has reached max_iterations.
C18_IterationCountAndTerminal ==
    /\ times_looped \in 0..max_iterations
    /\ times_looped = refinements
    /\ pc # "checker" =>
           (LoopEnded <=>
               \/ (results # <<>> /\ LastOf(results) = "pass")
               \/ times_looped = max_iterations)

\* C19, as claimed: the current recipe the presenter reads carries
\* ingredient_images, one entry per ingredient.
C19_ImagesReachPresenter ==
    pc = "presenter" =>
        /\ "ingredient_images" \in DOMAIN state["current_recipe"]
        /\ Len(state["current_recipe"]["ingredient_images"])
               = Len(state["current_recipe"].ingredients)

-----------------------------------------------------------------------------
(* References that do not resolve. *)

\* The positions of the support's grounding_chunk_indices that name a chunk
\* without a web reference or no chunk at all.
UnresolvedPositions ==
    {p \in DOMAIN TheSupport.grounding_chunk_indices :
        \A u \in Urls : ~ChunkHasUrl(RecordedEvent, TheSupport.grounding_chunk_indices[p], u)}

\* C20: after a recording both maps are written; only chunks with a web
\* reference have a Source; each Source holds one claim per reference of the
\* support to a chunk of its url, so a reference to a chunk without a web
\* reference or beyond the chunk sequence adds nothing anywhere, and the
\* other references of the same support are all recorded.
C20_OnlyResolvedIndicesRecorded ==
    (pc = "recorded" /\ HasSupport) =>
        /\ {"url_to_short_id", "sources"} \subseteq DOMAIN state
        /\ DOMAIN UrlMap(state) = DeliveredUrls(events)
        /\ Cardinality(DOMAIN SourceMap(state)) = Cardinality(DOMAIN UrlMap(state))
        /\ \A u \in DOMAIN UrlMap(state) :
               /\ SourceMap(state)[UrlMap(state)[u]].url = u
               /\ Len(ClaimsOf(state, u)) = DeliveredCount(RecordedEvent, u)

\* Chunks (a.example, no web reference) and a support that references chunk 1
\* and then chunk 0: the first reference is dropped, the second is recorded.
C20_Witness ==
    /\ pc = "recorded"
    /\ HasSupport
    /\ Len(ChunksOf(RecordedEvent)) = 2
    /\ ChunkHasUrl(RecordedEvent, 0, UrlA)
    /\ ChunksOf(RecordedEvent)[2].web = None
    /\ TheSupport.grounding_chunk_indices = <<1, 0>>
    /\ UnresolvedPositions = {1}
    /\ DOMAIN SourceMap(state) = {"src-1"}
    /\ Len(ClaimsOf(state, UrlA)) = 1

-----------------------------------------------------------------------------
(* The two maps of the ledger. *)

\* C21: after any sequence of recordings url_to_short_id is injective, its
\* values are exactly the keys of sources, the Source of every url carries
\* that url and its own key as short_id, and the keys are src-1 .. src-n for
\* the n distinct urls delivered so far.
C21_MapsConsistent ==
    Recorded =>
        LET url_to_short_id == UrlMap(state)
            sources == SourceMap(state)
            n == Cardinality(DeliveredUrls(events))
        IN  /\ DOMAIN url_to_short_id = DeliveredUrls(events)
            /\ \A u, v \in DOMAIN url_to_short_id :
                   url_to_short_id[u] = url_to_short_id[v] => u = v
            /\ {url_to_short_id[u] : u \in DOMAIN url_to_short_id} = DOMAIN sources
            /\ \A u \in DOMAIN url_to_short_id :
                   /\ sources[url_to_short_id[u]].url = u
                   /\ sources[url_to_short_id[u]].short_id = url_to_short_id[u]
            /\ \A k \in DOMAIN sources : sources[k].short_id = k
            /\ DOMAIN sources = {"src-" \o ToString(i) : i \in 1..n}

\* Two recordings that delivered both urls, one of them twice.
C21_Witness ==
    /\ Len(events) = 2
    /\ DeliveredUrls(<<events[1]>>) = {UrlA}
    /\ DeliveredUrls(<<events[2]>>) = {UrlA, UrlB}
    /\ DOMAIN UrlMap(state) = {UrlA, UrlB}
    /\ DOMAIN SourceMap(state) = {"src-1", "src-2"}
    /\ SourceMap(state)["src-2"].url = UrlB

-----------------------------------------------------------------------------
(* The metadata of a Source. *)

\* The web references of all events, in order of arrival.
RECURSIVE ChunkWebs(_)
ChunkWebs(chunks) ==
    IF chunks = <<>> THEN <<>>
    ELSE LET front == ChunkWebs(SubSeq(chunks, 1, Len(chunks) - 1))
         IN  IF LastOf(chunks).web = None THEN front ELSE Append(front, LastOf(chunks).web)

RECURSIVE AllWebs(_)
AllWebs(session_events) ==
    IF session_events = <<>> THEN <<>>
    ELSE AllWebs(SubSeq(session_events, 1, Len(session_events) - 1))
         \o ChunkWebs(ChunksOf(LastOf(session_events)))

\* The first web reference to url that arrived.
FirstWeb(session_events, url) ==
    LET webs == AllWebs(session_events)
        first == CHOOSE p \in DOMAIN webs :
                     webs[p].uri = url /\ \A q \in 1..(p - 1) : webs[q].uri # url
    IN  webs[first]

\* C23: the title, url, domain and short_id of a Source are those of the
\* first chunk that delivered its url, whatever title or domain later chunks
\* for the url carry, and no step changes them: of an existing Source only
\* supported_claims can change.
C23_FirstSeenMetadataWins ==
    /\ [](Recorded =>
            \A u \in DOMAIN UrlMap(state) :
                LET source == SourceMap(state)[UrlMap(state)[u]]
                IN  /\ source.title = FirstWeb(events, u).title
                    /\ source.domain = FirstWeb(events, u).domain
                    /\ source.url = u)
    /\ [][\A s \in DOMAIN SourceMap(state) :
            /\ s \in DOMAIN SourceMap(state')
            /\ SourceMap(state')[s].title = SourceMap(state)[s].title
            /\ SourceMap(state')[s].url = SourceMap(state)[s].url
            /\ SourceMap(state')[s].domain = SourceMap(state)[s].domain
            /\ SourceMap(state')[s].short_id = SourceMap(state)[s].short_id]_vars

\* The url came first as "Title A" of a.example and again, in the next
\* response, titled by another domain: the Source is as first recorded and
\* holds the claims of both responses.
C23_Witness ==
    /\ Len(events) = 2
    /\ ChunksOf(events[1]) = <<[web |-> WebA]>>
    /\ ChunksOf(events[2]) = <<[web |-> WebA2]>>
    /\ DeliveredCount(events[2], UrlA) = 1
    /\ DOMAIN SourceMap(state) = {"src-1"}
    /\ SourceMap(state)["src-1"].title = "Title A"
    /\ SourceMap(state)["src-1"].domain = "a.example"
    /\ Len(SourceMap(state)["src-1"].supported_claims) > 1

-----------------------------------------------------------------------------
(* The ingredient images. *)

\* C22: for a recipe with a non-empty ingredients list the postprocessor
\* sets ingredient_images to one entry per ingredient, in order, named by the
\* full ingredient description; an image call that fails or raises gives a
\* null image for its entry and the remaining ingredients are still
\* processed (each gets its image call); every other field is unchanged.
C22_OneImageEntryPerIngredient ==
    [][(/\ pc = "postprocess"
        /\ "ingredients" \in DOMAIN state["agent_output"]
        /\ state["agent_output"]["ingredients"] # <<>>) =>
          LET before == state["agent_output"]
              after == state'["agent_output"]
              ingredients == before["ingredients"]
              project == state["GOOGLE_CLOUD_PROJECT"] # ""
          IN  /\ pc' = "postprocessed"
              /\ DOMAIN after = DOMAIN before \cup {"ingredient_images"}
              /\ \A k \in DOMAIN before \ {"ingredient_images"} : after[k] = before[k]
              /\ Len(after["ingredient_images"]) = Len(ingredients)
              /\ \A i \in DOMAIN ingredients :
                     /\ after["ingredient_images"][i].name = ingredients[i]
                     /\ after["ingredient_images"][i].base64_image =
                            IF project /\ state["image_results"][i] = "image"
                            THEN Base64Image ELSE None
              /\ project => Len(state'["image_requests"]) = Len(ingredients)]_vars

\* Two ingredients, the image call raises for the first and succeeds for the
\* second: the first entry has no image, the second has one, and the second
\* call asked for "sweet potato".
C22_Witness ==
    /\ pc = "postprocessed"
    /\ state["GOOGLE_CLOUD_PROJECT"] = "project"
    /\ state["image_results"] = <<"raises", "image">>
    /\ "ingredient_images" \in DOMAIN state["agent_output"]
    /\ state["agent_output"]["ingredient_images"] =
           <<[name |-> <<"ripe", "banana">>, base64_image |-> None],
             [name |-> <<"1", "cup", "of", "chopped", "sweet", "potato">>,
              base64_image |-> Base64Image]>>
    /\ Len(state["image_requests"]) = 2
    /\ state["image_requests"][2].ingredient_name = <<"sweet", "potato">>

====
